---- MODULE Spec2Model ----
(***************************************************************************)
(* Model of go_relaymsg_stash: the batch extraction of relay-message       *)
(* events from raw webhook payloads (ProcessRequests / ParseEvent /        *)
(* StoreEvent), the ticker that spawns the drains (main), and the cached   *)
(* per-mailbox summary (SummaryHandler over a go-cache instance).          *)
(*                                                                         *)
(* Time is counted in units of 500 ms, the cache's cleanup interval; every *)
(* duration of the program is a multiple of it.                            *)
(***************************************************************************)
EXTENDS Integers, Sequences, FiniteSets, TLC

VARIABLES now, nextTick, dbUp, store, drains, cache, hs, resp

vars == <<now, nextTick, dbUp, store, drains, cache, hs, resp>>

(***************************************************************************)
(* Bounds of the model.                                                    *)
(***************************************************************************)
MaxTime == 4
MaxBatch == 2
MaxDrains == 2
SummaryDrains == 1
NumHandlers == 2

(***************************************************************************)
(* Program constants.  DefaultExpiration is the cache's 1 second TTL and   *)
(* BatchInterval the ticker's period for RELAYMSG_BATCH_INTERVAL = 1, both *)
(* in units of 500 ms.                                                     *)
(***************************************************************************)
MaxMessageSize == 8192
DefaultExpiration == 2
BatchInterval == 2

Handlers == 1..NumHandlers

(***************************************************************************)
(* Strings the program concatenates are sequences of characters.           *)
(***************************************************************************)
Domain == <<"y">>
Localparts == {<<"b">>, <<"a">>}
Mailbox(localpart, domain) == localpart \o <<"@">> \o domain

(***************************************************************************)
(* events.RelayMessage values.  A body is its length and its content.      *)
(***************************************************************************)
Msg(wid, from, to, subject, size, b64) ==
    [webhookId |-> wid, from |-> from, to |-> to, subject |-> subject,
     body |-> [size |-> size, data |-> wid], isBase64 |-> b64]

M1 == Msg("w1", "a@x", <<"b", "@", "y">>, "Hi", 10, FALSE)
M2 == Msg("w2", "c@x", <<"b", "@", "y">>, "Hi", MaxMessageSize - 1, TRUE)
M3 == Msg("w3", "c@x", <<"b", "@", "y">>, "Yo", 0, FALSE)
MBig == Msg("w4", "c@x", <<"b", "@", "y">>, "Yo", MaxMessageSize, FALSE)

BodyLen(body) == body.size

(***************************************************************************)
(* One element of a payload's JSON array, by what the code asks of it:     *)
(* whether it is null, whether the relayMsg expression matches its text,   *)
(* whether json.Unmarshal into map[string]map[string]RelayMessage          *)
(* succeeds, and the decoded map.  An element that matches relayMsg starts *)
(* with the key "msys", so a decoded one always holds that key; a later    *)
(* duplicate "msys" key can still replace the inner map by one without     *)
(* "relay_message".                                                        *)
(***************************************************************************)
Blob(outer, inner, msg) ==
    [keys |-> outer, msys |-> [keys |-> inner, relay_message |-> msg]]

ElNull == [nil |-> TRUE, shape |-> FALSE, decodes |-> FALSE, blob |-> Blob({}, {}, M1)]
ElOther == [nil |-> FALSE, shape |-> FALSE, decodes |-> TRUE, blob |-> Blob({"other_event"}, {}, M1)]
ElBadDecode == [nil |-> FALSE, shape |-> TRUE, decodes |-> FALSE, blob |-> Blob({}, {}, M1)]
ElNoRelay == [nil |-> FALSE, shape |-> TRUE, decodes |-> TRUE, blob |-> Blob({"msys"}, {"other"}, M1)]
ElRelay(msg) ==
    [nil |-> FALSE, shape |-> TRUE, decodes |-> TRUE,
     blob |-> Blob({"msys"}, {"relay_message"}, msg)]

(***************************************************************************)
(* Raw request payloads: text that is a JSON array of elements, or not.    *)
(***************************************************************************)
Payload(isArray, events) == [isArray |-> isArray, events |-> events]

PNotJson == Payload(FALSE, <<>>)
POther == Payload(TRUE, <<ElOther, ElNull>>)
PMixed == Payload(TRUE, <<ElNoRelay, ElBadDecode, ElRelay(M2)>>)
PBig == Payload(TRUE, <<ElRelay(M1), ElRelay(M3), ElRelay(MBig), ElRelay(M2)>>)

Payloads == {PNotJson, POther, PMixed, PBig}

Batches == UNION {[1..n -> Payloads] : n \in 0..MaxBatch}

SummaryBatches == {<<PMixed>>, <<PMixed, PBig>>}

(***************************************************************************)
(* The relay_messages table.                                               *)
(***************************************************************************)
RowSwapped(msg, id) ==
    [message_id |-> id, webhook_id |-> msg.webhookId, smtp_from |-> msg.to,
     smtp_to |-> msg.from, subject |-> msg.subject, rfc822 |-> msg.body,
     is_base64 |-> msg.isBase64, status_id |-> 0]

Row(msg, id) ==
    [message_id |-> id, webhook_id |-> msg.webhookId, smtp_from |-> msg.from,
     smtp_to |-> msg.to, subject |-> msg.subject, rfc822 |-> msg.body,
     is_base64 |-> msg.isBase64, status_id |-> 0]

Ok(tbl) == [err |-> "none", tbl |-> tbl]
Fail(e, tbl) == [err |-> e, tbl |-> tbl]

StoreEventOffByOne(msg, tbl, up) ==
    IF BodyLen(msg.body) > MaxMessageSize
    THEN Fail("MessageTooLarge", tbl)
    ELSE IF ~up
         THEN Fail("StorageError", tbl)
         ELSE Ok(Append(tbl, Row(msg, Len(tbl) + 1)))

StoreEventDedup(msg, tbl, up) ==
    IF BodyLen(msg.body) >= MaxMessageSize
    THEN Fail("MessageTooLarge", tbl)
    ELSE IF ~up
         THEN Fail("StorageError", tbl)
         ELSE IF \E k \in 1..Len(tbl) : tbl[k].webhook_id = msg.webhookId
              THEN Ok(tbl)
              ELSE Ok(Append(tbl, Row(msg, Len(tbl) + 1)))

StoreEventUpsert(msg, tbl, up) ==
    IF BodyLen(msg.body) >= MaxMessageSize
    THEN Fail("MessageTooLarge", tbl)
    ELSE IF ~up
         THEN Fail("StorageError", tbl)
         ELSE IF \E k \in 1..Len(tbl) :
                    tbl[k].smtp_to = msg.to /\ tbl[k].subject = msg.subject
              THEN Ok([k \in 1..Len(tbl) |->
                          IF tbl[k].smtp_to = msg.to /\ tbl[k].subject = msg.subject
                          THEN Row(msg, tbl[k].message_id)
                          ELSE tbl[k]])
              ELSE Ok(Append(tbl, Row(msg, Len(tbl) + 1)))

StoreEvent(msg, tbl, up) ==
    IF BodyLen(msg.body) >= MaxMessageSize
    THEN Fail("MessageTooLarge", tbl)
    ELSE IF ~up
         THEN Fail("StorageError", tbl)
         ELSE Ok(Append(tbl, Row(msg, Len(tbl) + 1)))

ParseEventNoNilCheck(j, tbl, up) ==
    IF j.nil THEN Fail("NilEvent", tbl)
    ELSE IF ~j.shape THEN Ok(tbl)
    ELSE IF ~j.decodes THEN Ok(tbl)
    ELSE IF "msys" \notin j.blob.keys THEN Ok(tbl)
    ELSE IF "relay_message" \notin j.blob.msys.keys THEN Ok(tbl)
    ELSE StoreEvent(j.blob.msys.relay_message, tbl, up)

ParseEventStrict(j, tbl, up) ==
    IF j.nil THEN Ok(tbl)
    ELSE IF ~j.shape THEN Ok(tbl)
    ELSE IF ~j.decodes THEN Fail("MalformedPayload", tbl)
    ELSE IF "msys" \notin j.blob.keys THEN Ok(tbl)
    ELSE IF "relay_message" \notin j.blob.msys.keys THEN Ok(tbl)
    ELSE StoreEvent(j.blob.msys.relay_message, tbl, up)

ParseEvent(j, tbl, up) ==
    IF j.nil THEN Ok(tbl)
    ELSE IF ~j.shape THEN Ok(tbl)
    ELSE IF ~j.decodes THEN Ok(tbl)
    ELSE IF "msys" \notin j.blob.keys THEN Ok(tbl)
    ELSE IF "relay_message" \notin j.blob.msys.keys THEN Ok(tbl)
    ELSE StoreEvent(j.blob.msys.relay_message, tbl, up)

(***************************************************************************)
(* A drain: one goroutine spawned by the ticker, running ProcessRequests   *)
(* over the batch the raw request store hands it.  (i, j) is the position  *)
(* of the two loops: request i, event j; j = 0 before the request's        *)
(* payload is parsed.  visited (the requests whose payload was parsed),    *)
(* stored (the rows inserted, each with the position of its event) and     *)
(* failedAt (the position of the event whose error ended the call) record  *)
(* what the call did.                                                      *)
(***************************************************************************)
NewDrain(batch) ==
    [st |-> "run", batch |-> batch, i |-> 1, j |-> 0, err |-> "none",
     failedAt |-> <<0, 0>>, visited |-> {}, stored |-> <<>>]

(***************************************************************************)
(* go-cache: entries carry an absolute expiry; Get treats an entry as      *)
(* absent once the clock is past it, and the janitor deletes such entries  *)
(* every CleanupInterval.                                                  *)
(***************************************************************************)
NoBytes == [obj |-> {}, results |-> <<>>]
NoEntry == [present |-> FALSE, value |-> NoBytes, exp |-> 0]

NeverExpired(e, t) == FALSE

Expired(e, t) == t > e.exp

CacheGetStrict(c, k, t) ==
    IF c[k].present /\ t < c[k].exp
    THEN [found |-> TRUE, value |-> c[k].value]
    ELSE [found |-> FALSE, value |-> NoBytes]

CacheGet(c, k, t) ==
    IF c[k].present /\ ~Expired(c[k], t)
    THEN [found |-> TRUE, value |-> c[k].value]
    ELSE [found |-> FALSE, value |-> NoBytes]

CacheSetLongTtl(c, k, v, t) ==
    [c EXCEPT ![k] = [present |-> TRUE, value |-> v, exp |-> t + 2 * DefaultExpiration]]

CacheSet(c, k, v, t) ==
    [c EXCEPT ![k] = [present |-> TRUE, value |-> v, exp |-> t + DefaultExpiration]]

DeleteExpired(c, t) ==
    [k \in DOMAIN c |-> IF c[k].present /\ Expired(c[k], t) THEN NoEntry ELSE c[k]]

(***************************************************************************)
(* The aggregate query of SummaryHandler: one row per subject among the    *)
(* rows with smtp_to = $1 || '@' || $2, with count(distinct smtp_from).    *)
(* GROUP BY fixes no order of the rows.                                    *)
(***************************************************************************)
Range(f) == {f[x] : x \in DOMAIN f}

Matching(tbl, localpart, domain) ==
    {r \in Range(tbl) : r.smtp_to = Mailbox(localpart, domain)}

Aggregate(tbl, localpart, domain) ==
    LET m == Matching(tbl, localpart, domain)
    IN  {[subject |-> s,
          count |-> Cardinality({r.smtp_from : r \in {x \in m : x.subject = s}})]
         : s \in {r.subject : r \in m}}

Orders(S) ==
    {q \in [1..Cardinality(S) -> S] : \A a, b \in DOMAIN q : a # b => q[a] # q[b]}

(***************************************************************************)
(* res := map[string][]SummaryResponse{}; each scanned row is appended to  *)
(* res["results"]; json.Marshal(res) writes the keys the map holds.        *)
(***************************************************************************)
EmptyRes == [keys |-> {}, results |-> <<>>]

AppendResult(res, s) ==
    [keys |-> res.keys \cup {"results"}, results |-> Append(res.results, s)]

RECURSIVE ScanRows(_, _)
ScanRows(res, rows) ==
    IF rows = <<>> THEN res ELSE ScanRows(AppendResult(res, Head(rows)), Tail(rows))

Marshal(res) == [obj |-> res.keys, results |-> res.results]

(***************************************************************************)
(* One goroutine serving summary requests: pc is "idle" between requests,  *)
(* "query" after a cache miss and "set" once the rows are scanned.  resp   *)
(* is the last response written by any of them: who wrote it, for which    *)
(* localpart, whether it came from the cache (hit) and whether the request *)
(* ran the query (queried); snap is the length the table had when the      *)
(* query behind a 200 answer ran, snapAt the time of that query, and at    *)
(* the time a 200 answer was written.                                      *)
(***************************************************************************)
IdleHandler ==
    [pc |-> "idle", localpart |-> <<>>, res |-> EmptyRes, snap |-> 0, snapAt |-> 0]

NoResponse ==
    [by |-> 0, localpart |-> <<>>, status |-> 0, body |-> NoBytes, text |-> "",
     hit |-> FALSE, queried |-> FALSE, snap |-> 0, snapAt |-> 0, at |-> 0]

Response(h, localpart, status, body, text, hit, queried, snap, snapAt, at) ==
    [by |-> h, localpart |-> localpart, status |-> status, body |-> body,
     text |-> text, hit |-> hit, queried |-> queried, snap |-> snap,
     snapAt |-> snapAt, at |-> at]

InitRunsAtStartup ==
    /\ now = 0
    /\ nextTick = 0
    /\ dbUp = TRUE
    /\ store = <<>>
    /\ drains = <<>>
    /\ cache = [l \in Localparts |-> NoEntry]
    /\ hs = [h \in Handlers |-> IdleHandler]
    /\ resp = NoResponse

Init ==
    /\ now = 0
    /\ nextTick = BatchInterval
    /\ dbUp = TRUE
    /\ store = <<>>
    /\ drains = <<>>
    /\ cache = [l \in Localparts |-> NoEntry]
    /\ hs = [h \in Handlers |-> IdleHandler]
    /\ resp = NoResponse

(***************************************************************************)
(* The clock, the database and the ticker of main.                         *)
(***************************************************************************)
Advance ==
    /\ now < MaxTime
    /\ now < nextTick
    /\ now' = now + 1
    /\ UNCHANGED <<nextTick, dbUp, store, drains, cache, hs, resp>>

DbFlip ==
    /\ dbUp' = ~dbUp
    /\ UNCHANGED <<now, nextTick, store, drains, cache, hs, resp>>

SpawnAwaitsDrain(pending, limit) ==
    /\ now >= nextTick
    /\ Len(drains) < limit
    /\ \A d \in 1..Len(drains) : drains[d].st = "done"
    /\ \E batch \in pending : drains' = Append(drains, NewDrain(batch))
    /\ nextTick' = nextTick + BatchInterval
    /\ UNCHANGED <<now, dbUp, store, cache, hs, resp>>

SpawnStopsOnError(pending, limit) ==
    /\ now >= nextTick
    /\ Len(drains) < limit
    /\ \A d \in 1..Len(drains) : drains[d].err = "none"
    /\ \E batch \in pending : drains' = Append(drains, NewDrain(batch))
    /\ nextTick' = nextTick + BatchInterval
    /\ UNCHANGED <<now, dbUp, store, cache, hs, resp>>

Spawn(pending, limit) ==
    /\ now >= nextTick
    /\ Len(drains) < limit
    /\ \E batch \in pending : drains' = Append(drains, NewDrain(batch))
    /\ nextTick' = nextTick + BatchInterval
    /\ UNCHANGED <<now, dbUp, store, cache, hs, resp>>

Tick == Spawn(Batches, MaxDrains)

TickSummary == Spawn(SummaryBatches, SummaryDrains)

(***************************************************************************)
(* ProcessRequests, one step per loop iteration.                           *)
(***************************************************************************)
NextRequest(dr) == [dr EXCEPT !.i = dr.i + 1, !.j = 0]

BeginRequestAbort(d) ==
    /\ drains[d].st = "run"
    /\ drains[d].j = 0
    /\ drains[d].i <= Len(drains[d].batch)
    /\ LET dr == [drains[d] EXCEPT !.visited = @ \cup {drains[d].i}]
           req == dr.batch[dr.i]
       IN  drains' = [drains EXCEPT ![d] =
                IF ~req.isArray
                THEN [dr EXCEPT !.st = "done", !.err = "MalformedPayload",
                                !.failedAt = <<dr.i, 0>>]
                ELSE IF Len(req.events) = 0
                     THEN NextRequest(dr)
                     ELSE [dr EXCEPT !.j = 1]]
    /\ UNCHANGED <<now, nextTick, dbUp, store, cache, hs, resp>>

BeginRequest(d) ==
    /\ drains[d].st = "run"
    /\ drains[d].j = 0
    /\ drains[d].i <= Len(drains[d].batch)
    /\ LET dr == [drains[d] EXCEPT !.visited = @ \cup {drains[d].i}]
           req == dr.batch[dr.i]
       IN  drains' = [drains EXCEPT ![d] =
                IF ~req.isArray \/ Len(req.events) = 0
                THEN NextRequest(dr)
                ELSE [dr EXCEPT !.j = 1]]
    /\ UNCHANGED <<now, nextTick, dbUp, store, cache, hs, resp>>

EventStepFromEnd(d) ==
    /\ drains[d].st = "run"
    /\ drains[d].j >= 1
    /\ LET dr == drains[d]
           events == dr.batch[dr.i].events
           n == Len(events) - dr.j + 1
           r == ParseEvent(events[n], store, dbUp)
           kept == IF Len(r.tbl) > Len(store)
                   THEN [dr EXCEPT !.stored =
                            Append(@, [i |-> dr.i, j |-> n, row |-> r.tbl[Len(r.tbl)]])]
                   ELSE dr
       IN  /\ store' = r.tbl
           /\ drains' = [drains EXCEPT ![d] =
                IF r.err # "none"
                THEN [kept EXCEPT !.st = "done", !.err = r.err, !.failedAt = <<dr.i, n>>]
                ELSE IF dr.j = Len(events)
                     THEN NextRequest(kept)
                     ELSE [kept EXCEPT !.j = dr.j + 1]]
    /\ UNCHANGED <<now, nextTick, dbUp, cache, hs, resp>>

EventStepRollback(d) ==
    /\ drains[d].st = "run"
    /\ drains[d].j >= 1
    /\ LET dr == drains[d]
           events == dr.batch[dr.i].events
           r == ParseEvent(events[dr.j], store, dbUp)
           kept == IF Len(r.tbl) > Len(store)
                   THEN [dr EXCEPT !.stored =
                            Append(@, [i |-> dr.i, j |-> dr.j, row |-> r.tbl[Len(r.tbl)]])]
                   ELSE dr
           mine(row) == \E k \in 1..Len(dr.stored) : dr.stored[k].row = row
       IN  /\ store' = IF r.err # "none"
                       THEN SelectSeq(r.tbl, LAMBDA row : ~mine(row))
                       ELSE r.tbl
           /\ drains' = [drains EXCEPT ![d] =
                IF r.err # "none"
                THEN [kept EXCEPT !.st = "done", !.err = r.err, !.failedAt = <<dr.i, dr.j>>]
                ELSE IF dr.j = Len(events)
                     THEN NextRequest(kept)
                     ELSE [kept EXCEPT !.j = dr.j + 1]]
    /\ UNCHANGED <<now, nextTick, dbUp, cache, hs, resp>>

EventStep(d) ==
    /\ drains[d].st = "run"
    /\ drains[d].j >= 1
    /\ LET dr == drains[d]
           events == dr.batch[dr.i].events
           r == ParseEvent(events[dr.j], store, dbUp)
           kept == IF Len(r.tbl) > Len(store)
                   THEN [dr EXCEPT !.stored =
                            Append(@, [i |-> dr.i, j |-> dr.j, row |-> r.tbl[Len(r.tbl)]])]
                   ELSE dr
       IN  /\ store' = r.tbl
           /\ drains' = [drains EXCEPT ![d] =
                IF r.err # "none"
                THEN [kept EXCEPT !.st = "done", !.err = r.err, !.failedAt = <<dr.i, dr.j>>]
                ELSE IF dr.j = Len(events)
                     THEN NextRequest(kept)
                     ELSE [kept EXCEPT !.j = dr.j + 1]]
    /\ UNCHANGED <<now, nextTick, dbUp, cache, hs, resp>>

DrainReturn(d) ==
    /\ drains[d].st = "run"
    /\ drains[d].j = 0
    /\ drains[d].i > Len(drains[d].batch)
    /\ drains' = [drains EXCEPT ![d].st = "done"]
    /\ UNCHANGED <<now, nextTick, dbUp, store, cache, hs, resp>>

(***************************************************************************)
(* SummaryHandler: the cache lookup, the query with its row scan, and the  *)
(* cache fill with the response.                                           *)
(***************************************************************************)
\* How the query of one request can end: Query fails, a Scan fails on some
\* row, rows.Err reports a failed iteration, or every row is scanned.  While
\* the database is unavailable only the first can happen.
QueryOutcomes ==
    IF dbUp THEN {"ok", "queryErr", "scanErr", "rowsErr"} ELSE {"queryErr"}

SummaryGet(h, localpart) ==
    /\ hs[h].pc = "idle"
    /\ LET g == CacheGet(cache, localpart, now)
       IN  IF g.found
           THEN /\ resp' = Response(h, localpart, 200, g.value, "", TRUE, FALSE, 0, 0, now)
                /\ UNCHANGED hs
           ELSE /\ hs' = [hs EXCEPT ![h] = [pc |-> "query", localpart |-> localpart,
                                            res |-> EmptyRes, snap |-> 0,
                                            snapAt |-> 0]]
                /\ UNCHANGED resp
    /\ UNCHANGED <<now, nextTick, dbUp, store, drains, cache>>

SummaryQueryCachesFailure(h) ==
    /\ hs[h].pc = "query"
    /\ \E outcome \in QueryOutcomes :
       \E rows \in Orders(Aggregate(store, hs[h].localpart, Domain)) :
          /\ outcome = "scanErr" => rows # <<>>
          /\ IF outcome = "ok"
             THEN /\ hs' = [hs EXCEPT ![h].pc = "set",
                                      ![h].res = ScanRows(EmptyRes, rows),
                                      ![h].snap = Len(store),
                                      ![h].snapAt = now]
                  /\ UNCHANGED <<resp, cache>>
             ELSE /\ hs' = [hs EXCEPT ![h] = IdleHandler]
                  /\ resp' = Response(h, hs[h].localpart, 500, NoBytes,
                                      "Database error", FALSE, TRUE, 0, 0, 0)
                  /\ cache' = CacheSet(cache, hs[h].localpart, Marshal(EmptyRes), now)
    /\ UNCHANGED <<now, nextTick, dbUp, store, drains>>

SummaryQueryKeepsPartial(h) ==
    /\ hs[h].pc = "query"
    /\ \E outcome \in QueryOutcomes :
       \E rows \in Orders(Aggregate(store, hs[h].localpart, Domain)) :
          /\ outcome = "scanErr" => rows # <<>>
          /\ IF outcome \in {"ok", "scanErr"}
             THEN /\ hs' = [hs EXCEPT ![h].pc = "set",
                                      ![h].res = ScanRows(EmptyRes,
                                                    IF outcome = "ok" THEN rows
                                                    ELSE SubSeq(rows, 1, Len(rows) - 1)),
                                      ![h].snap = Len(store),
                                      ![h].snapAt = now]
                  /\ UNCHANGED resp
             ELSE /\ hs' = [hs EXCEPT ![h] = IdleHandler]
                  /\ resp' = Response(h, hs[h].localpart, 500, NoBytes,
                                      "Database error", FALSE, TRUE, 0, 0, 0)
    /\ UNCHANGED <<now, nextTick, dbUp, store, drains, cache>>

SummaryQuery(h) ==
    /\ hs[h].pc = "query"
    /\ \E outcome \in QueryOutcomes :
       \E rows \in Orders(Aggregate(store, hs[h].localpart, Domain)) :
          /\ outcome = "scanErr" => rows # <<>>
          /\ IF outcome = "ok"
             THEN /\ hs' = [hs EXCEPT ![h].pc = "set",
                                      ![h].res = ScanRows(EmptyRes, rows),
                                      ![h].snap = Len(store),
                                      ![h].snapAt = now]
                  /\ UNCHANGED resp
             ELSE /\ hs' = [hs EXCEPT ![h] = IdleHandler]
                  /\ resp' = Response(h, hs[h].localpart, 500, NoBytes,
                                      "Database error", FALSE, TRUE, 0, 0, 0)
    /\ UNCHANGED <<now, nextTick, dbUp, store, drains, cache>>

SummarySet(h) ==
    /\ hs[h].pc = "set"
    /\ LET jsonBytes == Marshal(hs[h].res)
       IN  /\ cache' = CacheSet(cache, hs[h].localpart, jsonBytes, now)
           /\ resp' = Response(h, hs[h].localpart, 200, jsonBytes, "", FALSE, TRUE,
                                  hs[h].snap, hs[h].snapAt, now)
    /\ hs' = [hs EXCEPT ![h] = IdleHandler]
    /\ UNCHANGED <<now, nextTick, dbUp, store, drains>>

Sweep ==
    /\ \E k \in Localparts : cache[k].present /\ Expired(cache[k], now)
    /\ cache' = DeleteExpired(cache, now)
    /\ UNCHANGED <<now, nextTick, dbUp, store, drains, hs, resp>>

Next ==
    \/ Advance
    \/ DbFlip
    \/ Tick
    \/ \E d \in 1..Len(drains) : BeginRequest(d)
    \/ \E d \in 1..Len(drains) : EventStep(d)
    \/ \E d \in 1..Len(drains) : DrainReturn(d)

Spec == Init /\ [][Next]_vars

NextSummary ==
    \/ Advance
    \/ TickSummary
    \/ \E d \in 1..Len(drains) : BeginRequest(d)
    \/ \E d \in 1..Len(drains) : EventStep(d)
    \/ \E d \in 1..Len(drains) : DrainReturn(d)
    \/ \E h \in Handlers, l \in Localparts : SummaryGet(h, l)
    \/ \E h \in Handlers : SummaryQuery(h)
    \/ \E h \in Handlers : SummarySet(h)
    \/ Sweep

SpecSummary == Init /\ [][NextSummary]_vars

(***************************************************************************)
(* What the properties below speak about.                                  *)
(***************************************************************************)
DrainIds == DOMAIN drains

\* The element's text has the relay-message shape and decodes to a map
\* holding a message under msys.relay_message.
IsRelayEvent(el) ==
    /\ ~el.nil /\ el.shape /\ el.decodes
    /\ "msys" \in el.blob.keys
    /\ "relay_message" \in el.blob.msys.keys

\* The element has the relay-message shape but yields no message.
IsUndecodable(el) ==
    /\ ~el.nil /\ el.shape
    /\ \/ ~el.decodes
       \/ "msys" \notin el.blob.keys
       \/ "relay_message" \notin el.blob.msys.keys

EventOf(el) == el.blob.msys.relay_message

Positions(batch) ==
    UNION {{<<i, j>> : j \in 1..Len(batch[i].events)} : i \in 1..Len(batch)}

Before(p, q) == p[1] < q[1] \/ (p[1] = q[1] /\ p[2] < q[2])

\* The positions of the events whose ParseEvent call has returned.
Processed(dr) ==
    {p \in Positions(dr.batch) :
        IF dr.failedAt # <<0, 0>>
        THEN Before(p, dr.failedAt) \/ p = dr.failedAt
        ELSE Before(p, <<dr.i, dr.j>>)}

StoredAt(dr, p) ==
    \E k \in 1..Len(dr.stored) : dr.stored[k].i = p[1] /\ dr.stored[k].j = p[2]

RECURSIVE TotalStored(_)
TotalStored(ds) ==
    IF ds = <<>> THEN 0 ELSE Len(Head(ds).stored) + TotalStored(Tail(ds))

\* Request k is passed over: nothing of it stored, no error from it, and
\* once the loop is past it the request after it is attempted.
PassedOver(dr, k) ==
    /\ dr.failedAt[1] # k
    /\ \A n \in 1..Len(dr.stored) : dr.stored[n].i # k
    /\ (dr.i > k /\ k < Len(dr.batch)) =>
          \/ k + 1 \in dr.visited
          \/ dr.st = "run" /\ dr.i = k + 1 /\ dr.j = 0
    /\ (k = Len(dr.batch) /\ dr.st = "done") => dr.err = "none"

(***************************************************************************)
(* C2: every stored record has a body shorter than MaxMessageSize, and a   *)
(* StoreEvent call with a body of MaxMessageSize bytes or more fails with  *)
(* MessageTooLarge and inserts nothing.                                    *)
(***************************************************************************)
C2_OversizedNeverStored ==
    /\ \A k \in 1..Len(store) : store[k].rfc822.size < MaxMessageSize
    /\ Len(store) = TotalStored(drains)
    /\ \A d \in DrainIds : \A p \in Processed(drains[d]) :
          LET el == drains[d].batch[p[1]].events[p[2]]
          IN  (IsRelayEvent(el) /\ EventOf(el).body.size >= MaxMessageSize) =>
                 /\ drains[d].failedAt = p
                 /\ drains[d].err = "MessageTooLarge"
                 /\ ~StoredAt(drains[d], p)

C2_Witness ==
    \E d \in DrainIds :
        /\ drains[d].err = "MessageTooLarge"
        /\ Len(drains[d].stored) = 2
        /\ Len(store) = 2

(***************************************************************************)
(* C3: a StoreEvent call for an event whose body is shorter than           *)
(* MaxMessageSize, made while the database is available, appends exactly   *)
(* one record carrying the event's webhookId, from, to, subject, body and  *)
(* isBase64, and returns no error.                                         *)
(***************************************************************************)
C3_StoreAppendsEvent ==
    [][\A d \in DrainIds :
         LET dr == drains[d]
             el == dr.batch[dr.i].events[dr.j]
             m == EventOf(el)
         IN  (/\ dr.st = "run" /\ dr.j >= 1 /\ drains'[d] # dr
              /\ IsRelayEvent(el) /\ m.body.size < MaxMessageSize /\ dbUp)
             => /\ Len(store') = Len(store) + 1
                /\ SubSeq(store', 1, Len(store)) = store
                /\ LET r == store'[Len(store')]
                   IN  /\ r.webhook_id = m.webhookId
                       /\ r.smtp_from = m.from
                       /\ r.smtp_to = m.to
                       /\ r.subject = m.subject
                       /\ r.rfc822 = m.body
                       /\ r.is_base64 = m.isBase64
                /\ drains'[d].err = "none"
                /\ drains'[d].failedAt = <<0, 0>>]_vars

C3_Witness ==
    \E k \in 1..Len(store) :
        /\ store[k].webhook_id = "w2"
        /\ store[k].rfc822.size = MaxMessageSize - 1
        /\ store[k].is_base64

(***************************************************************************)
(* C4: when StoreEvent fails for an event of raw request i, the error is   *)
(* returned, the events after it in request i are not processed, and the   *)
(* raw requests after i in the batch are still attempted.                  *)
(***************************************************************************)
C4_FailureSkipsOnlyCurrentRequest ==
    \A d \in DrainIds :
        drains[d].err # "none" =>
            /\ drains[d].st = "done"
            /\ \A n \in 1..Len(drains[d].stored) :
                  Before(<<drains[d].stored[n].i, drains[d].stored[n].j>>, drains[d].failedAt)
            /\ drains[d].failedAt[1] < Len(drains[d].batch) =>
                  drains[d].failedAt[1] + 1 \in drains[d].visited

(***************************************************************************)
(* C5: a raw request whose payload is not a JSON array is passed over: it  *)
(* stores nothing, causes no error, and the request after it is attempted. *)
(***************************************************************************)
C5_NonArraySkipped ==
    \A d \in DrainIds :
        /\ \A k \in drains[d].visited :
              ~drains[d].batch[k].isArray => PassedOver(drains[d], k)
        /\ (drains[d].st = "done" /\ drains[d].err = "none") =>
              drains[d].visited = 1..Len(drains[d].batch)

C5_Witness ==
    \E d \in DrainIds :
        /\ drains[d].batch = <<PNotJson, PMixed>>
        /\ drains[d].st = "done"
        /\ drains[d].err = "none"
        /\ Len(drains[d].stored) = 1

(***************************************************************************)
(* C6: a payload that is a JSON array without any relay-message-shaped     *)
(* element (null elements and other event types included) is extracted     *)
(* without error and without a change to the message store.                *)
(***************************************************************************)
C6_NoRelayEventsNoChange ==
    \A d \in DrainIds :
        /\ \A k \in 1..Len(drains[d].batch) :
              LET req == drains[d].batch[k]
              IN  (req.isArray /\ \A n \in 1..Len(req.events) : ~req.events[n].shape)
                  => /\ drains[d].failedAt[1] # k
                     /\ \A n \in 1..Len(drains[d].stored) : drains[d].stored[n].i # k
                     /\ k \in drains[d].visited => PassedOver(drains[d], k)
        /\ (\A k \in 1..Len(drains[d].batch) :
               /\ drains[d].batch[k].isArray
               /\ \A n \in 1..Len(drains[d].batch[k].events) :
                     ~drains[d].batch[k].events[n].shape)
           => /\ drains[d].err = "none"
              /\ drains[d].stored = <<>>

C6_Witness ==
    \E d \in DrainIds :
        /\ drains[d].batch = <<POther>>
        /\ drains[d].st = "done"
        /\ drains[d].err = "none"
        /\ store = <<>>

(***************************************************************************)
(* C7: an element with the relay-message shape that fails to decode, or    *)
(* that lacks msys or relay_message once decoded, is skipped without error *)
(* and without a record, and the elements after it in the same request     *)
(* are still extracted and, when valid, stored.                            *)
(***************************************************************************)
C7_UndecodableSkipped ==
    \A d \in DrainIds : \A p \in Processed(drains[d]) :
        LET dr == drains[d]
            events == dr.batch[p[1]].events
        IN  IsUndecodable(events[p[2]]) =>
               /\ dr.failedAt # p
               /\ ~StoredAt(dr, p)
               /\ p[2] < Len(events) =>
                     \/ <<p[1], p[2] + 1>> \in Processed(dr)
                     \/ dr.st = "run" /\ dr.i = p[1] /\ dr.j = p[2] + 1
               /\ \A q \in Processed(dr) :
                     (/\ q[1] = p[1] /\ q[2] > p[2]
                      /\ IsRelayEvent(events[q[2]])
                      /\ EventOf(events[q[2]]).body.size < MaxMessageSize)
                     => \/ StoredAt(dr, q)
                        \/ dr.failedAt = q /\ dr.err = "StorageError"

C7_Witness ==
    \E d \in DrainIds :
        /\ Len(drains[d].batch) >= 1
        /\ drains[d].batch[1] = PMixed
        /\ drains[d].err = "none"
        /\ StoredAt(drains[d], <<1, 3>>)

(***************************************************************************)
(* C8: extraction does not deduplicate: two runs over the same payloads    *)
(* that both return without error store every valid event twice.           *)
(***************************************************************************)
C8_NoDeduplication ==
    \A d1, d2 \in DrainIds :
        (/\ d1 < d2
         /\ drains[d1].batch = drains[d2].batch
         /\ drains[d1].st = "done" /\ drains[d1].err = "none"
         /\ drains[d2].st = "done" /\ drains[d2].err = "none")
        => \A p \in Positions(drains[d1].batch) :
              LET el == drains[d1].batch[p[1]].events[p[2]]
                  same == {q \in Positions(drains[d1].batch) :
                              drains[d1].batch[q[1]].events[q[2]] = el}
              IN  IsRelayEvent(el) =>
                     Cardinality({k \in 1..Len(store) :
                                     /\ store[k].webhook_id = EventOf(el).webhookId
                                     /\ store[k].smtp_from = EventOf(el).from
                                     /\ store[k].smtp_to = EventOf(el).to
                                     /\ store[k].subject = EventOf(el).subject
                                     /\ store[k].rfc822 = EventOf(el).body})
                     >= 2 * Cardinality(same)

C8_Witness ==
    \E d1, d2 \in DrainIds :
        /\ d1 < d2
        /\ drains[d1].batch = <<PMixed>> /\ drains[d2].batch = <<PMixed>>
        /\ drains[d1].st = "done" /\ drains[d1].err = "none"
        /\ drains[d2].st = "done" /\ drains[d2].err = "none"
        /\ Len(store) = 2

(***************************************************************************)
(* C1: a lookup for localpart L that misses the cache and whose query      *)
(* succeeds answers an envelope {"results": [...]} with exactly one entry  *)
(* per distinct subject among the records whose smtp_to is L + "@" +       *)
(* domain, each entry counting the distinct smtp_from values of that       *)
(* subject's records; other mailboxes' records do not contribute.          *)
(***************************************************************************)
C1_MissReturnsAggregate ==
    (resp.status = 200 /\ ~resp.hit) =>
        LET to == resp.localpart \o <<"@">> \o Domain
            rows == {k \in 1..resp.snap : store[k].smtp_to = to}
            subjects == {store[k].subject : k \in rows}
            results == resp.body.results
        IN  /\ resp.body.obj = {"results"}
            /\ Len(results) = Cardinality(subjects)
            /\ \A n \in 1..Len(results) : results[n].subject \in subjects
            /\ \A s \in subjects : \E n \in 1..Len(results) :
                  /\ results[n].subject = s
                  /\ results[n].count =
                        Cardinality({store[k].smtp_from :
                                        k \in {x \in rows : store[x].subject = s}})

(***************************************************************************)
(* C9: a lookup that finds an unexpired cache entry answers exactly the    *)
(* bytes the populating lookup stored and answered, without a query and    *)
(* whatever the message store holds by then.                               *)
(***************************************************************************)
C9_HitServesStoredBytes ==
    [][/\ \A h \in Handlers : \A l \in Localparts :
             (hs[h].pc = "idle" /\ cache[l].present /\ now <= cache[l].exp) =>
                /\ ~(hs'[h].pc = "query" /\ hs'[h].localpart = l)
                /\ (resp' # resp /\ resp'.by = h /\ resp'.localpart = l) =>
                      /\ resp'.status = 200
                      /\ resp'.hit /\ ~resp'.queried
                      /\ resp'.body = cache[l].value
                      /\ cache' = cache
       /\ \A l \in Localparts :
             (cache'[l] # cache[l] /\ cache'[l].present) =>
                /\ resp'.localpart = l /\ resp'.status = 200
                /\ ~resp'.hit /\ resp'.queried
                /\ cache'[l].value = resp'.body]_vars

C9_Witness ==
    /\ resp.hit /\ resp.status = 200
    /\ resp.body.results = <<>>
    /\ \E k \in 1..Len(store) :
          store[k].smtp_to = resp.localpart \o <<"@">> \o Domain

(***************************************************************************)
(* C10: an entry expires DefaultExpiration after it was stored, and a      *)
(* lookup made once that time has passed (or once the entry is swept) is   *)
(* not answered from the cache: it runs the query again, whether or not    *)
(* the data changed.                                                       *)
(***************************************************************************)
C10_ExpiredEntryRequeried ==
    [][/\ \A l \in Localparts :
             (cache'[l] # cache[l] /\ cache'[l].present) =>
                cache'[l].exp = now + DefaultExpiration
       /\ \A h \in Handlers : \A l \in Localparts :
             (hs[h].pc = "idle" /\ (~cache[l].present \/ now > cache[l].exp)) =>
                ~(resp' # resp /\ resp'.by = h /\ resp'.localpart = l)
       /\ (resp' # resp /\ ~resp'.hit) => resp'.queried]_vars

C10_Witness ==
    \E h \in Handlers :
        /\ hs[h].pc = "query"
        /\ cache[hs[h].localpart].present
        /\ now > cache[hs[h].localpart].exp
        /\ cache[hs[h].localpart].value.results = <<>>
        /\ store = <<>>

(***************************************************************************)
(* C11: a lookup whose query, row scan or row iteration fails answers 500  *)
(* with the fixed text "Database error" and no body, leaves every cache    *)
(* entry as it was, and keeps nothing of the failed request: the handler   *)
(* is idle again, and its next lookup for that localpart, when it misses   *)
(* the cache, runs the query again instead of answering.                   *)
(***************************************************************************)
C11_FailedLookupNotCached ==
    [][/\ (resp' # resp /\ resp'.status # 200) =>
             /\ resp'.status = 500
             /\ resp'.text = "Database error"
             /\ resp'.body = NoBytes
             /\ ~resp'.hit /\ resp'.queried
             /\ hs[resp'.by].pc = "query"
             /\ hs[resp'.by].localpart = resp'.localpart
             /\ hs'[resp'.by] = IdleHandler
             /\ cache' = cache
       /\ (/\ resp.status = 500
           /\ hs[resp.by].pc = "idle"
           /\ ~CacheGet(cache, resp.localpart, now).found
           /\ hs'[resp.by] # hs[resp.by]
           /\ hs'[resp.by].localpart = resp.localpart)
          => /\ hs'[resp.by].pc = "query"
             /\ resp' = resp
             /\ cache' = cache]_vars

C11_Witness ==
    /\ resp.status = 500
    /\ hs[resp.by].pc = "query"
    /\ hs[resp.by].localpart = resp.localpart
    /\ ~cache[resp.localpart].present
    /\ \E k \in 1..Len(store) :
          store[k].smtp_to = resp.localpart \o <<"@">> \o Domain

(***************************************************************************)
(* C12: a lookup whose query succeeds with zero rows answers 200 with the  *)
(* envelope {"results": []}, stores these bytes under its localpart with   *)
(* an expiry DefaultExpiration ahead, as for a non-empty result, and a     *)
(* lookup made while that entry is live is answered from it without a      *)
(* query.                                                                  *)
(***************************************************************************)
C12_EmptyResultCached ==
    [][/\ \A h \in Handlers :
             (hs[h].pc = "set" /\ hs'[h].pc = "idle" /\ hs[h].res.results = <<>>) =>
                /\ resp'.status = 200 /\ resp'.by = h /\ ~resp'.hit
                /\ resp'.body = [obj |-> {"results"}, results |-> <<>>]
                /\ cache'[hs[h].localpart] =
                      [present |-> TRUE, value |-> resp'.body,
                       exp |-> now + DefaultExpiration]
       /\ \A h \in Handlers : \A l \in Localparts :
             (/\ hs[h].pc = "idle" /\ cache[l].present /\ now <= cache[l].exp
              /\ cache[l].value.results = <<>>
              /\ resp' # resp /\ resp'.by = h /\ resp'.localpart = l)
             => /\ resp'.hit /\ ~resp'.queried
                /\ resp'.body = cache[l].value
                /\ hs' = hs]_vars

(***************************************************************************)
(* C13: a response served from the cache at time t was computed from a     *)
(* snapshot of the table taken no earlier than t - DefaultExpiration.      *)
(* Stated for a hit that follows the response of the lookup that filled    *)
(* the entry: the time since that lookup's query is DefaultExpiration at   *)
(* most.                                                                   *)
(***************************************************************************)
C13_SnapshotWithinTtl ==
    [][(/\ resp.status = 200 /\ ~resp.hit
        /\ resp'.status = 200 /\ resp'.hit
        /\ resp'.localpart = resp.localpart)
       => now - resp.snapAt <= DefaultExpiration]_vars

(***************************************************************************)
(* C13, amended: a response served from the cache at time t is the bytes   *)
(* a lookup stored no earlier than t - DefaultExpiration, computed from a  *)
(* snapshot taken at or before the time they were stored; the time between *)
(* that lookup's query and its store adds to the age of the snapshot.      *)
(***************************************************************************)
C13_StoredWithinTtl ==
    [][/\ \A h \in Handlers :
             (hs[h].pc = "set" /\ hs'[h].pc = "idle") =>
                /\ resp'.by = h /\ resp'.status = 200 /\ ~resp'.hit
                /\ resp'.at = now
                /\ resp'.snapAt = hs[h].snapAt
                /\ resp'.snapAt <= resp'.at
                /\ cache'[hs[h].localpart].value = resp'.body
       /\ (/\ resp.status = 200 /\ ~resp.hit
           /\ resp'.status = 200 /\ resp'.hit
           /\ resp'.localpart = resp.localpart)
          => /\ resp'.at = now
             /\ resp'.at - resp.at <= DefaultExpiration
             /\ resp'.body = resp.body]_vars

C13_Witness ==
    /\ resp.status = 200 /\ resp.hit
    /\ cache[resp.localpart].present
    /\ resp.at = cache[resp.localpart].exp
    /\ resp.body = cache[resp.localpart].value
    /\ resp.body.results # <<>>

(***************************************************************************)
(* C14: the ticker loop does not wait for the drains it spawned: whenever  *)
(* a tick is due while an earlier drain is still running (however far it   *)
(* got, also when it never takes a step), the tick can spawn a new drain,  *)
(* and spawning leaves the running drains as they are.  Two drains         *)
(* running at once is a reachable state (the witness).                     *)
(***************************************************************************)
Running == {d \in DrainIds : drains[d].st = "run"}

C14_TickDoesNotAwaitDrains ==
    (/\ now >= nextTick
     /\ Len(drains) < MaxDrains
     /\ Running # {})
    => ENABLED Tick

C14_Witness ==
    /\ Cardinality(Running) >= 2
    /\ drains[1].visited = {}
    /\ \E d \in Running : d > 1 /\ drains[d].stored # <<>>

(***************************************************************************)
(* C15: a drain that returned an error does not stop the ticker: the next  *)
(* tick stays scheduled no later than one BatchInterval ahead, and when it *)
(* is due it can spawn a new drain, however many drains failed before.     *)
(***************************************************************************)
Failed == {d \in DrainIds : drains[d].st = "done" /\ drains[d].err # "none"}

C15_FailedDrainKeepsTicker ==
    Failed # {} =>
        /\ nextTick >= now
        /\ nextTick <= now + BatchInterval
        /\ (now >= nextTick /\ Len(drains) < MaxDrains) => ENABLED Tick

C15_Witness ==
    /\ Len(drains) = 2
    /\ 1 \in Failed
    /\ drains[2].st = "done" /\ drains[2].err = "none"
    /\ drains[2].stored # <<>>

(***************************************************************************)
(* C16: no drain is started at startup.  The first drain is spawned by the *)
(* first tick, one BatchInterval after the start, and every tick spawns    *)
(* exactly one drain: at any time the number of drains spawned is the      *)
(* number of ticks fired, and the n-th tick does not fire before           *)
(* n * BatchInterval.                                                      *)
(***************************************************************************)
TicksFired == (nextTick - BatchInterval) \div BatchInterval

C16_NoDrainBeforeFirstTick ==
    /\ nextTick % BatchInterval = 0
    /\ Len(drains) = TicksFired
    /\ TicksFired * BatchInterval <= now
    /\ now < BatchInterval => drains = <<>>

C16_Witness ==
    /\ now = BatchInterval
    /\ Len(drains) = 1
    /\ nextTick = 2 * BatchInterval

(***************************************************************************)
(* C17: the table only grows: every step keeps the rows it held, in place  *)
(* and with every field unchanged, and a step of a summary lookup (cache   *)
(* hit, miss, query, failure, cache fill) or of the cache janitor leaves   *)
(* the table as it is.                                                     *)
(***************************************************************************)
C17_StoreAppendOnly ==
    [][/\ Len(store') >= Len(store)
       /\ \A k \in 1..Len(store) : store'[k] = store[k]
       /\ (hs' # hs \/ resp' # resp \/ cache' # cache) => store' = store]_vars

C17_Witness ==
    /\ Len(store) = 3
    /\ resp.status = 500
    /\ \E l \in Localparts : cache[l].present /\ cache[l].value.results # <<>>
    /\ \E h \in Handlers : hs[h].pc = "set"

(***************************************************************************)
(* C18: within one ProcessRequests call the requests are taken in the      *)
(* order given and the events of a request in array order: the requests    *)
(* parsed so far are the first ones of the batch, every row the call       *)
(* stored comes from a position before the one the loops are at (or before *)
(* the one that failed), and of two rows of the call the one from the      *)
(* earlier (request, event) position was appended first.                   *)
(***************************************************************************)
PosOf(s) == <<s.i, s.j>>

IsValidEvent(el) == IsRelayEvent(el) /\ EventOf(el).body.size < MaxMessageSize

C18_StoredInInputOrder ==
    \A d \in DrainIds :
        LET dr == drains[d]
        IN  /\ \E n \in 0..Len(dr.batch) : dr.visited = 1..n
            /\ \A a \in 1..Len(dr.stored) :
                  /\ PosOf(dr.stored[a]) \in Processed(dr)
                  /\ dr.stored[a].row.message_id \in 1..Len(store)
                  /\ store[dr.stored[a].row.message_id] = dr.stored[a].row
            /\ \A a, b \in 1..Len(dr.stored) :
                  Before(PosOf(dr.stored[a]), PosOf(dr.stored[b]))
                  <=> dr.stored[a].row.message_id < dr.stored[b].row.message_id

C18_Witness ==
    \E d \in DrainIds :
        /\ drains[d].batch = <<PMixed, PBig>>
        /\ Len(drains[d].stored) = 3
        /\ PosOf(drains[d].stored[1]) = <<1, 3>>
        /\ PosOf(drains[d].stored[2]) = <<2, 1>>
        /\ PosOf(drains[d].stored[3]) = <<2, 2>>
        /\ \E k \in 1..Len(store) : store[k] \notin {drains[d].stored[a].row : a \in 1..3}

(***************************************************************************)
(* C19: ProcessRequests does not roll back.  When a call has ended with    *)
(* the error of the event at position k, every valid event before k in the *)
(* batch has its row in the table, the call is reported failed, and a      *)
(* second call over the same batch stores these events again: each of      *)
(* them then has two rows.                                                 *)
(***************************************************************************)
RowsOf(dr, p) ==
    {dr.stored[a].row.message_id : a \in {x \in 1..Len(dr.stored) : PosOf(dr.stored[x]) = p}}

Preceding(dr) == {p \in Positions(dr.batch) : Before(p, dr.failedAt)}

C19_NoRollback ==
    /\ \A d \in DrainIds :
          LET dr == drains[d]
          IN  dr.err # "none" =>
                 /\ dr.st = "done"
                 /\ dr.failedAt \in Positions(dr.batch)
                 /\ \A p \in Preceding(dr) :
                       IsValidEvent(dr.batch[p[1]].events[p[2]]) =>
                          \E id \in RowsOf(dr, p) :
                             /\ id \in 1..Len(store)
                             /\ store[id].webhook_id =
                                   EventOf(dr.batch[p[1]].events[p[2]]).webhookId
                             /\ store[id].rfc822 =
                                   EventOf(dr.batch[p[1]].events[p[2]]).body
    /\ \A d1, d2 \in DrainIds :
          (/\ d1 < d2
           /\ drains[d1].batch = drains[d2].batch
           /\ drains[d1].err # "none" /\ drains[d2].err # "none")
          => \A p \in Preceding(drains[d1]) \cap Preceding(drains[d2]) :
                IsValidEvent(drains[d1].batch[p[1]].events[p[2]]) =>
                   /\ RowsOf(drains[d1], p) \cap RowsOf(drains[d2], p) = {}
                   /\ Cardinality(RowsOf(drains[d1], p) \cup RowsOf(drains[d2], p)) = 2

C19_Witness ==
    /\ Len(drains) = 2
    /\ drains[1].batch = <<PMixed, PBig>>
    /\ drains[2].batch = <<PMixed, PBig>>
    /\ drains[1].err = "MessageTooLarge"
    /\ drains[2].err = "MessageTooLarge"
    /\ Len(store) = 6

(***************************************************************************)
(* C20: the cache entry of a localpart, and the body of every 200 answer   *)
(* for it, is the serialization of the complete result of the aggregate    *)
(* query for that localpart's mailbox over the table as it was at some     *)
(* earlier time (a prefix of the table, which only grows): never the       *)
(* result for another mailbox and never a part of a result.                *)
(***************************************************************************)
CompleteResults(localpart) ==
    UNION {{Marshal(ScanRows(EmptyRes, rows)) :
               rows \in Orders(Aggregate(SubSeq(store, 1, n), localpart, Domain))}
           : n \in 0..Len(store)}

C20_CacheHoldsCompleteResults ==
    /\ \A l \in Localparts :
          cache[l].present => cache[l].value \in CompleteResults(l)
    /\ resp.status = 200 => resp.body \in CompleteResults(resp.localpart)
    /\ \A h \in Handlers :
          hs[h].pc = "set" => Marshal(hs[h].res) \in CompleteResults(hs[h].localpart)

C20_Witness ==
    /\ cache[<<"a">>].present /\ cache[<<"a">>].value.results = <<>>
    /\ cache[<<"b">>].present /\ Len(cache[<<"b">>].value.results) = 2
    /\ resp.status = 500
    /\ Len(store) = 3

====
